---- MODULE Spec2Model ----
(***************************************************************************)
(* Model of the resume builder: the package command                        *)
(* (src/resume_builder/cli.py with yaml_docx.py and prompt_generator.py)   *)
(* the earlier stand-alone script (src/script.py), and the earlier         *)
(* generator module (src/prompt_generator.py).                             *)
(*                                                                         *)
(* Texts are TLA+ strings.  A variable that is not bound yet, or a docx    *)
(* property that is not set, is the empty sequence Nothing; a bound value  *)
(* v is the one-element sequence Some(v).  The Python value None is the    *)
(* value PyNone.  Lengths are in EMU, the unit python-docx stores.  The    *)
(* grave accent of a Markdown fence cannot be written in a TLA+ string:    *)
(* the character "~" stands for it throughout.                             *)
(***************************************************************************)
EXTENDS Integers, Sequences, FiniteSets, TLC

Nothing == <<>>
Some(v) == <<v>>
IsSome(o) == Len(o) = 1
Get(o) == o[1]

Min(a, b) == IF a < b THEN a ELSE b
Max(a, b) == IF a > b THEN a ELSE b

(* ---------------------------------------------------------------------- *)
(* Bounds of the model                                                     *)
(* ---------------------------------------------------------------------- *)
\* longest sequence of section directives
MaxSections == 2
\* longest list of entries (skills, work, points ...) in a generated resume
MaxEntries == 2

(* ---------------------------------------------------------------------- *)
(* docx.shared units                                                       *)
(* ---------------------------------------------------------------------- *)
\* Pt(n): points to EMU
Pt(n) == n * 12700
\* Inches(x) = int(x * 914400); x is given in thousandths of an inch
Inches(milli) == (milli * 914400) \div 1000

(* ---------------------------------------------------------------------- *)
(* TextStyle and the presets                                               *)
(* ---------------------------------------------------------------------- *)
TextStyleDefault == [bold |-> FALSE, font_name |-> "Times New Roman", font_size |-> Pt(12)]

TextStyle(bold, font_size) == [TextStyleDefault EXCEPT !.bold = bold, !.font_size = font_size]

formattingstyles ==
  [ Name           |-> TextStyle(FALSE, Pt(18)),
    Links          |-> TextStyle(FALSE, Pt(14)),
    Point          |-> TextStyleDefault,
    PointHeading   |-> TextStyle(TRUE, Pt(12)),
    SectionHeading |-> TextStyle(TRUE, Pt(13)) ]

(* ---------------------------------------------------------------------- *)
(* The document: python-docx as the code uses it                           *)
(*   paragraph = [runs, style, space_before, space_after, alignment]       *)
(*   run       = [text, font]   font is Nothing until a style is applied   *)
(*   A builder value B = [paragraphs, err]: err is the exception raised so *)
(*   far ("" if none); once err is set, later statements have no effect.   *)
(* ---------------------------------------------------------------------- *)
NewRun(text) == [text |-> text, font |-> Nothing]

NewParagraph(text, style) ==
  [ runs         |-> IF text = "" THEN <<>> ELSE <<NewRun(text)>>,
    style        |-> style,
    space_before |-> Nothing,
    space_after  |-> Nothing,
    alignment    |-> Nothing ]

ParagraphText(p) ==
  LET RECURSIVE cat(_)
      cat(rs) == IF rs = <<>> THEN "" ELSE Head(rs).text \o cat(Tail(rs))
  IN cat(p.runs)

Builder(paragraphs) == [paragraphs |-> paragraphs, err |-> ""]

Last(B) == B.paragraphs[Len(B.paragraphs)]

SetLast(B, p) == [B EXCEPT !.paragraphs[Len(B.paragraphs)] = p]

\* doc.add_paragraph(text, style=...)
add_paragraph(B, text, style) ==
  IF B.err # "" THEN B
  ELSE [B EXCEPT !.paragraphs = Append(@, NewParagraph(text, style))]

\* paragraph.add_run(text) on the paragraph added last
add_run(B, text) ==
  IF B.err # "" THEN B
  ELSE SetLast(B, [Last(B) EXCEPT !.runs = Append(@, NewRun(text))])

\* style.apply(paragraph.runs[n]) on the paragraph added last; runs[n] of a
\* paragraph with too few runs raises IndexError
applyRun(B, n, style) ==
  IF B.err # "" THEN B
  ELSE IF Len(Last(B).runs) < n THEN [B EXCEPT !.err = "IndexError"]
  ELSE SetLast(B, [Last(B) EXCEPT !.runs[n].font = Some(style)])

apply(B, style) == applyRun(B, 1, style)

set_space_before(B, v) ==
  IF B.err # "" THEN B ELSE SetLast(B, [Last(B) EXCEPT !.space_before = Some(v)])

set_space_after(B, v) ==
  IF B.err # "" THEN B ELSE SetLast(B, [Last(B) EXCEPT !.space_after = Some(v)])

set_alignment(B, a) ==
  IF B.err # "" THEN B ELSE SetLast(B, [Last(B) EXCEPT !.alignment = Some(a)])

\* spacing(paragraph, space_before, space_after)
spacing(B, space_before, space_after) ==
  set_space_before(set_space_after(B, space_after), space_before)

\* for x in items: B = Step(B, x)
RECURSIVE ForEach(_, _, _)
ForEach(Step(_, _), B, items) ==
  IF items = <<>> THEN B ELSE ForEach(Step, Step(B, Head(items)), Tail(items))

(* ---------------------------------------------------------------------- *)
(* Section renderers (resume_builder/yaml_docx.py)                         *)
(* ---------------------------------------------------------------------- *)
\* a renderer that first changes the spacing of the paragraph before its own
ProfessionalSummaryRenderer_restyles_previous(B, data) ==
  LET text == add_paragraph(spacing(B, Pt(0), Pt(0)), data.summary \o "\n", "Normal")
  IN spacing(apply(text, formattingstyles.Point), Pt(0), Pt(0))

ProfessionalSummaryRenderer(B, data) ==
  LET text == add_paragraph(B, data.summary \o "\n", "Normal")
  IN spacing(apply(text, formattingstyles.Point), Pt(0), Pt(0))

\* a renderer that writes category and skill as one run
SkillRenderer_single_run(B, data) ==
  LET one(b, skillcategory) ==
        set_space_after(apply(add_paragraph(b, skillcategory.category \o ": " \o skillcategory.skill,
                                            "Normal"), formattingstyles.PointHeading), Pt(3))
  IN add_paragraph(ForEach(one, B, data.skills), "", "Normal")

SkillRenderer(B, data) ==
  LET one(b, skillcategory) ==
        LET categoryname == apply(add_paragraph(b, skillcategory.category \o ": ", "Normal"),
                                  formattingstyles.PointHeading)
            valuerun == add_run(categoryname, skillcategory.skill)
        IN set_space_after(applyRun(valuerun, 2, formattingstyles.Point), Pt(3))
  IN add_paragraph(ForEach(one, B, data.skills), "", "Normal")

WorkPoints(B, Points) ==
  LET one(b, point) ==
        set_space_after(apply(add_paragraph(b, point, "List Bullet"), formattingstyles.Point), Pt(3))
  IN ForEach(one, B, Points)

WorkExperienceRenderer(B, data) ==
  LET one(b, work) ==
        WorkPoints(add_paragraph(b, work.Title \o ", " \o work.Company \o " " \o work.Date, "Normal"),
                   work.Points)
  IN add_paragraph(ForEach(one, B, data.work), "", "Normal")

CredentialPoints(B, Points) ==
  LET one(b, point) ==
        set_space_after(apply(add_paragraph(b, point, "List Bullet"), formattingstyles.Point), Pt(0))
  IN ForEach(one, B, Points)

Credentials(B, Credential) ==
  LET one(b, credential) ==
        LET credentialname == set_space_after(add_paragraph(b, credential.Name, "Normal"), Pt(0))
        IN CredentialPoints(apply(credentialname, formattingstyles.PointHeading), credential.Points)
  IN ForEach(one, B, Credential)

Certificates(B, certificates) ==
  LET one(b, certificate) ==
        LET certificatename == add_paragraph(b, certificate.Name \o ": " \o certificate.Issuer, "List Bullet")
        IN set_space_after(apply(certificatename, formattingstyles.Point), Pt(2))
  IN ForEach(one, B, certificates)

EducationRenderer(B, data) ==
  LET one(b, university) ==
        LET universityname == add_paragraph(b, university.Name, "Normal")
        IN Credentials(apply(universityname, formattingstyles.PointHeading), university.Credential)
  IN Certificates(add_paragraph(ForEach(one, B, data.education), "", "Normal"), data.certificates)

\* the two spacings exchanged
ProjectSpaceBefore_swapped(project) ==
  IF project.Name = "Project 1 Name" THEN Pt(9) ELSE Pt(0)

\* spacing-before of a project heading
ProjectSpaceBefore(project) ==
  IF project.Name = "Project 1 Name" THEN Pt(0) ELSE Pt(9)

ProjectPoints(B, Points) ==
  LET one(b, point) ==
        spacing(apply(add_paragraph(b, point, "List Bullet"), formattingstyles.Point), Pt(15), Pt(3))
  IN ForEach(one, B, Points)

ProjectRenderer(B, data) ==
  LET one(b, project) ==
        LET projectname == apply(add_paragraph(b, project.Name, "Normal"), formattingstyles.PointHeading)
        IN ProjectPoints(set_space_before(projectname, ProjectSpaceBefore(project)), project.Points)
  IN ForEach(one, B, data.projects)

\* the Sections enum values, the keys of renderermap
Sections ==
  [ PROFESSIONAL_SUMMARY |-> "Professional Summary",
    SKILLS               |-> "Skills",
    EXPERIENCE           |-> "Experience",
    EDUCATON             |-> "Education",
    PROJECTS             |-> "Projects" ]

SectionNames == {Sections[k] : k \in DOMAIN Sections}

\* renderermap: section name -> renderer instance
renderermap ==
  [ name \in SectionNames |->
      CASE name = Sections.PROFESSIONAL_SUMMARY -> "ProfessionalSummaryRenderer"
        [] name = Sections.SKILLS               -> "SkillRenderer"
        [] name = Sections.EDUCATON             -> "EducationRenderer"
        [] name = Sections.EXPERIENCE           -> "WorkExperienceRenderer"
        [] name = Sections.PROJECTS             -> "ProjectRenderer" ]

\* renderer.render(doc, data)
render(renderer, B, data) ==
  CASE renderer = "ProfessionalSummaryRenderer" -> ProfessionalSummaryRenderer(B, data)
    [] renderer = "SkillRenderer"               -> SkillRenderer(B, data)
    [] renderer = "EducationRenderer"           -> EducationRenderer(B, data)
    [] renderer = "WorkExperienceRenderer"      -> WorkExperienceRenderer(B, data)
    [] renderer = "ProjectRenderer"             -> ProjectRenderer(B, data)

\* script.py: the Experience, Education and Projects renderers ignore their
\* data argument and read the module-level resume
script_render(renderer, B, data, resume) ==
  IF renderer \in {"EducationRenderer", "WorkExperienceRenderer", "ProjectRenderer"}
  THEN render(renderer, B, resume)
  ELSE render(renderer, B, data)

\* paragraph_formatting(doc, paragraph_text, style, alignment=CENTER)
paragraph_formatting(B, paragraph_text, style) ==
  set_alignment(apply(add_paragraph(B, paragraph_text, "Normal"), TextStyleDefault), "CENTER")

(* ---------------------------------------------------------------------- *)
(* Schema validation (pydantic models of yaml_docx.py)                     *)
(* A mapping is a function from keys to values; a missing field is a key   *)
(* outside its DOMAIN.  Fields that are present hold values of the         *)
(* declared type in the inputs of this model.                              *)
(* ---------------------------------------------------------------------- *)
All(Valid(_), items) == \A i \in 1..Len(items) : Valid(items[i])

skillsclass == {"category", "skill"}
workclass == {"Title", "Company", "Date", "Points"}
projectclass == {"Name", "Points"}
certificateclass == {"Name", "Issuer"}
credentialclass == {"Name", "Points"}
educationclass == {"Name", "Credential"}
ResumeFields == {"summary", "skills", "education", "certificates", "work", "projects"}

\* does the mapping m validate against a model with these required fields
HasFields(m, fields) == fields \subseteq DOMAIN m

educationclass_valid(m) ==
  /\ HasFields(m, educationclass)
  /\ All(LAMBDA c : HasFields(c, credentialclass), m.Credential)

\* a validation that checks the six fields and not the entries
Resume_valid_shallow(obj) == HasFields(obj, ResumeFields)

\* Resume.model_validate accepts obj
Resume_valid(obj) ==
  /\ HasFields(obj, ResumeFields)
  /\ All(LAMBDA m : HasFields(m, skillsclass), obj.skills)
  /\ All(educationclass_valid, obj.education)
  /\ All(LAMBDA m : HasFields(m, certificateclass), obj.certificates)
  /\ All(LAMBDA m : HasFields(m, workclass), obj.work)
  /\ All(LAMBDA m : HasFields(m, projectclass), obj.projects)

\* the fields each entry model declares
EntryFields ==
  [ skills |-> skillsclass, education |-> educationclass, certificates |-> certificateclass,
    work |-> workclass, projects |-> projectclass ]

Restrict(m, keys) == [k \in keys \cap DOMAIN m |-> m[k]]

\* the model built from obj: the declared fields only
Resume_build(obj) ==
  [ k \in ResumeFields \cap DOMAIN obj |->
      IF k = "summary" THEN obj[k]
      ELSE [ i \in 1..Len(obj[k]) |->
               LET entry == Restrict(obj[k][i], EntryFields[k])
               IN IF k = "education" /\ "Credential" \in DOMAIN entry
                  THEN [entry EXCEPT !.Credential =
                          [j \in 1..Len(@) |-> Restrict(@[j], credentialclass)]]
                  ELSE entry ] ]

\* Resume.model_validate(obj): Some(model), or Nothing for ValidationError
Resume_model_validate(obj) ==
  IF Resume_valid(obj) THEN Some(Resume_build(obj)) ELSE Nothing

(* ---------------------------------------------------------------------- *)
(* Strings                                                                 *)
(* ---------------------------------------------------------------------- *)
Char(s, i) == SubSeq(s, i, i)

CharsOf(s) == {Char(s, i) : i \in 1..Len(s)}

CountChar(s, c) == Cardinality({i \in 1..Len(s) : Char(s, i) = c})

AllChars(s, set) == \A i \in 1..Len(s) : Char(s, i) \in set

\* position of the first c in s, Len(s)+1 if there is none
FindChar(s, c) ==
  LET hits == {i \in 1..Len(s) : Char(s, i) = c}
  IN IF hits = {} THEN Len(s) + 1 ELSE CHOOSE i \in hits : \A j \in hits : i <= j

StartsWith(s, prefix) == Len(s) >= Len(prefix) /\ SubSeq(s, 1, Len(prefix)) = prefix

\* a slice that keeps one more character at the end
PySlice_keeps_one_more(s, start, k) ==
  LET lo == Min(start, Len(s))
      hi == Max(Len(s) - k + 1, 0)
  IN IF hi <= lo THEN "" ELSE SubSeq(s, lo + 1, Min(hi, Len(s)))

\* Python s[start:stop] for start >= 0 and stop <= 0 counted from the end
\* (stop = -k): both indices are clamped to the string
PySlice(s, start, k) ==
  LET lo == Min(start, Len(s))
      hi == Max(Len(s) - k, 0)
  IN IF hi <= lo THEN "" ELSE SubSeq(s, lo + 1, hi)

AlnumChars == CharsOf("abcdefghijklmnopqrstuvwxyzABCDEFGHIJKLMNOPQRSTUVWXYZ0123456789")

\* the other characters of an unquoted local part (the grave accent, which a
\* TLA+ string cannot hold, is left out)
LocalSpecials ==
  {"!", "#", "$", "%", "&", "'", "*", "+", "-", "/", "=", "?", "^", "_", "{", "|", "}", "~", "."}

\* dot-separated labels: none empty, none starting or ending with a hyphen
LabelsOk(s) ==
  /\ s # ""
  /\ Char(s, 1) \notin {".", "-"}
  /\ Char(s, Len(s)) \notin {".", "-"}
  /\ \A i \in 1..(Len(s) - 1) :
       /\ ~(Char(s, i) = "." /\ Char(s, i + 1) \in {".", "-"})
       /\ ~(Char(s, i) = "-" /\ Char(s, i + 1) = ".")

(* ---------------------------------------------------------------------- *)
(* ContactInfo (pydantic EmailStr / HttpUrl), syntax level                 *)
(* ---------------------------------------------------------------------- *)
\* a check that only asks for a non-empty text
EmailStr_valid_lenient(s) == s # ""

\* EmailStr: local@domain, a dot-atom local part, a dotted host name
EmailStr_valid(s) ==
  /\ CountChar(s, "@") = 1
  /\ LET at == FindChar(s, "@")
         local == SubSeq(s, 1, at - 1)
         domain == SubSeq(s, at + 1, Len(s))
     IN /\ local # ""
        /\ AllChars(local, AlnumChars \cup LocalSpecials)
        /\ Char(local, 1) # "."
        /\ Char(local, Len(local)) # "."
        /\ \A i \in 1..(Len(local) - 1) : ~(Char(local, i) = "." /\ Char(local, i + 1) = ".")
        /\ AllChars(domain, AlnumChars \cup {"-", "."})
        /\ CountChar(domain, ".") >= 1
        /\ LabelsOk(domain)

\* HttpUrl: scheme http or https, "://", a host name, then a path without blanks
HttpUrl_valid(s) ==
  \E scheme \in {"http://", "https://"} :
    /\ StartsWith(s, scheme)
    /\ LET rest == SubSeq(s, Len(scheme) + 1, Len(s))
           host == SubSeq(rest, 1, FindChar(rest, "/") - 1)
       IN /\ AllChars(host, AlnumChars \cup {"-", "."})
          /\ LabelsOk(host)
          /\ " " \notin CharsOf(rest)

\* ContactInfo(name=..., email=..., github=..., linkedin=...):
\* Some(model), or Nothing for ValidationError
ContactInfo(name, email, github, linkedin) ==
  IF EmailStr_valid(email) /\ HttpUrl_valid(github) /\ HttpUrl_valid(linkedin)
  THEN Some([name |-> name, email |-> email, github |-> github, linkedin |-> linkedin])
  ELSE Nothing

(* ---------------------------------------------------------------------- *)
(* Structured data and its YAML text (yaml.dump / yaml.safe_load)          *)
(* A mapping is written in flow style with its keys in KeyOrder.           *)
(* ---------------------------------------------------------------------- *)
PyNone == [py_none |-> TRUE]

ScalarKeys ==
  {"summary", "category", "skill", "Title", "Company", "Date", "Name", "Issuer", "name", "email",
   "github", "linkedin", "type"}

StrListKeys == {"Points"}

KeyOrder ==
  << "resume", "personal_details", "resume_sections",
     "summary", "skills", "education", "certificates", "work", "projects",
     "category", "skill", "Title", "Company", "Date", "Name", "Issuer", "Credential", "Points",
     "name", "email", "github", "linkedin", "type" >>

RECURSIVE Join(_, _)
Join(strs, sep) ==
  IF strs = <<>> THEN ""
  ELSE IF Len(strs) = 1 THEN strs[1]
  ELSE strs[1] \o sep \o Join(Tail(strs), sep)

Quote(s) == "'" \o s \o "'"

RECURSIVE DumpMapping(_)
RECURSIVE DumpNode(_, _)
DumpMapping(m) ==
  LET ks == SelectSeq(KeyOrder, LAMBDA k : k \in DOMAIN m)
  IN "{" \o Join([i \in 1..Len(ks) |-> ks[i] \o ": " \o DumpNode(ks[i], m[ks[i]])], ", ") \o "}"

DumpNode(k, v) ==
  IF k \in ScalarKeys THEN Quote(v)
  ELSE IF k \in StrListKeys THEN "[" \o Join([i \in 1..Len(v) |-> Quote(v[i])], ", ") \o "]"
  ELSE "[" \o Join([i \in 1..Len(v) |-> DumpMapping(v[i])], ", ") \o "]"

\* yaml.dump(value, sort_keys=False)
yaml_dump(value) ==
  IF value = PyNone THEN "null\n...\n" ELSE DumpMapping(value) \o "\n"

RECURSIVE LStrip(_)
LStrip(s) == IF s # "" /\ Char(s, 1) \in {"\n", " "} THEN LStrip(Tail(s)) ELSE s

RECURSIVE RStrip(_)
RStrip(s) ==
  IF s # "" /\ Char(s, Len(s)) \in {"\n", " "} THEN RStrip(SubSeq(s, 1, Len(s) - 1)) ELSE s

(* ---------------------------------------------------------------------- *)
(* Inputs of the model: the structured data a run can meet                 *)
(* ---------------------------------------------------------------------- *)
\* the lists of at most n elements of S
Lists(S, n) == UNION {[1..k -> S] : k \in 0..n}

Drop(m, key) == [k \in DOMAIN m \ {key} |-> m[k]]

Skill1 == [category |-> "Languages", skill |-> "Python, Go"]
Skill2 == [category |-> "", skill |-> ""]
Work1 == [Title |-> "Engineer", Company |-> "Acme", Date |-> "2020-2022", Points |-> <<"Shipped X">>]
Work2 == [Title |-> "Intern", Company |-> "Initech", Date |-> "2019", Points |-> <<"Fixed A", "Fixed B">>]
Project1 == [Name |-> "Project 1 Name", Points |-> <<"Did Y">>]
Project2 == [Name |-> "Tool", Points |-> <<"Did Z">>]
Project3 == [Name |-> "", Points |-> <<>>]
Credential1 == [Name |-> "BSc", Points |-> <<"Honors">>]
Credential2 == [Name |-> "", Points |-> <<>>]
Education1 == [Name |-> "State U", Credential |-> <<Credential1>>]
Education2 == [Name |-> "", Credential |-> <<>>]
Certificate1 == [Name |-> "Cert A", Issuer |-> "Org"]
Certificate2 == [Name |-> "", Issuer |-> ""]
PointPool == {"Shipped X", ""}

BaseResume ==
  [ summary      |-> "Built things.",
    skills       |-> <<Skill1>>,
    education    |-> <<Education1>>,
    certificates |-> <<Certificate1>>,
    work         |-> <<Work1>>,
    projects     |-> <<Project2, Project1>> ]

AltResume ==
  [ summary      |-> "",
    skills       |-> <<>>,
    education    |-> <<>>,
    certificates |-> <<>>,
    work         |-> <<Work2>>,
    projects     |-> <<Project1>> ]

\* resumes with every required field, differing from BaseResume in one field
StarResumes ==
  {BaseResume, AltResume}
  \cup {[BaseResume EXCEPT !.summary = ""]}
  \cup {[BaseResume EXCEPT !.skills = l] : l \in Lists({Skill1, Skill2}, MaxEntries)}
  \cup {[BaseResume EXCEPT !.work = l] : l \in Lists({Work1, Work2}, MaxEntries)}
  \cup {[BaseResume EXCEPT !.work = <<[Work1 EXCEPT !.Points = l]>>] : l \in Lists(PointPool, MaxEntries)}
  \cup {[BaseResume EXCEPT !.projects = l] : l \in Lists({Project1, Project2, Project3}, MaxEntries)}
  \cup {[BaseResume EXCEPT !.projects = <<[Project2 EXCEPT !.Points = l]>>] : l \in Lists(PointPool, MaxEntries)}
  \cup {[BaseResume EXCEPT !.education = l] : l \in Lists({Education1, Education2}, MaxEntries)}
  \cup {[BaseResume EXCEPT !.education = <<[Education1 EXCEPT !.Credential = l]>>] :
          l \in Lists({Credential1, Credential2}, MaxEntries)}
  \cup {[BaseResume EXCEPT !.education = <<[Education1 EXCEPT !.Credential = <<[Credential1 EXCEPT !.Points = l]>>]>>] :
          l \in Lists(PointPool, MaxEntries)}
  \cup {[BaseResume EXCEPT !.certificates = l] : l \in Lists({Certificate1, Certificate2}, MaxEntries)}

\* resumes that vary the skills and the work experience together
SkillWorkResumes ==
  {[BaseResume EXCEPT !.skills = s, !.work = w] :
     s \in Lists({Skill1, Skill2}, MaxEntries), w \in Lists({Work1, Work2}, MaxEntries)}

\* structures with one required field, or one required sub-field, missing
IncompleteResumes ==
  {Drop(BaseResume, k) : k \in ResumeFields}
  \cup {[BaseResume EXCEPT !.skills = <<Skill1, Drop(Skill1, k)>>] : k \in skillsclass}
  \cup {[BaseResume EXCEPT !.work = <<Drop(Work1, k)>>] : k \in workclass}
  \cup {[BaseResume EXCEPT !.projects = <<Drop(Project2, k), Project1>>] : k \in projectclass}
  \cup {[BaseResume EXCEPT !.certificates = <<Drop(Certificate1, k)>>] : k \in certificateclass}
  \cup {[BaseResume EXCEPT !.education = <<Drop(Education1, k)>>] : k \in educationclass}
  \cup {[BaseResume EXCEPT !.education = <<[Education1 EXCEPT !.Credential = <<Drop(Credential1, k)>>]>>] :
          k \in credentialclass}

UnknownSections == {"Hobbies", "skills"}

BasePersonal == [name |-> "AMISH GOEL", email |-> "a@b.com"]

PersonalPool ==
  { BasePersonal,
    [name |-> "AMISH GOEL", email |-> "Jobs@lets.workwithamish.me"],
    [name |-> "AMISH GOEL", email |-> "not-an-email"],
    [name |-> "AMISH GOEL", email |-> "a@b"],
    [name |-> "AMISH GOEL", email |-> "a b@c.com"],
    [name |-> "AMISH GOEL", email |-> ""],
    [name |-> "", email |-> "a@b.com"],
    [name |-> "AMISH GOEL"],
    [email |-> "a@b.com"],
    [name |-> "AMISH GOEL", email |-> "a@b.com", github |-> "not a url", linkedin |-> "https://example.com"],
    [name |-> "AMISH GOEL", email |-> "a@b.com", github |-> "https://example.com", linkedin |-> "ftp://example.com"],
    [name |-> "AMISH GOEL", email |-> "a@b.com", github |-> "https://github.com/AmishGoel1",
     linkedin |-> "https://www.linkedin.com/in/amish-goyal-096066b4/"] }

Directives(names) == [i \in 1..Len(names) |-> [type |-> names[i]]]

MkData(raw, personal, names) ==
  [resume |-> <<raw>>, personal_details |-> <<personal>>, resume_sections |-> Directives(names)]

EndToEndSections == <<Sections.PROFESSIONAL_SUMMARY, Sections.SKILLS, Sections.EXPERIENCE>>

CoreSections == {<<n>> : n \in SectionNames} \cup {EndToEndSections}

BaseData == MkData(BaseResume, BasePersonal, EndToEndSections)

\* the mappings that the YAML texts of the model denote
YamlDocs ==
  {MkData(raw, BasePersonal, names) :
     raw \in {BaseResume, AltResume}, names \in Lists(SectionNames \cup UnknownSections, MaxSections)}
  \cup {MkData(raw, BasePersonal, names) : raw \in StarResumes \cup IncompleteResumes, names \in CoreSections}
  \cup {MkData(raw, BasePersonal, EndToEndSections) : raw \in SkillWorkResumes}
  \cup {MkData(BaseResume, personal, <<Sections.SKILLS>>) : personal \in PersonalPool}
  \cup {Drop(BaseData, k) : k \in DOMAIN BaseData}
  \cup {[BaseData EXCEPT !.resume = <<>>], [BaseData EXCEPT !.personal_details = <<>>],
        [BaseData EXCEPT !.resume_sections = <<[type |-> Sections.SKILLS], [name |-> "x"]>>]}

\* the YAML text of every document, computed once
YamlTexts == {<<DumpMapping(d), d>> : d \in YamlDocs}

\* yaml.safe_load(text): [ok, value]; ok = FALSE stands for yaml.YAMLError.
\* Blank text and the null document load as None; a text that is the
\* serialization of no mapping is malformed.
yaml_safe_load(text) ==
  LET t == RStrip(LStrip(text))
  IN IF t \in {"", "null", "null\n..."} THEN [ok |-> TRUE, value |-> PyNone]
     ELSE IF \E p \in YamlTexts : p[1] = t
          THEN [ok |-> TRUE, value |-> (CHOOSE p \in YamlTexts : p[1] = t)[2]]
          ELSE [ok |-> FALSE, value |-> PyNone]

(* ---------------------------------------------------------------------- *)
(* The replies of the model and the runs that are explored                 *)
(* ---------------------------------------------------------------------- *)
\* the reply the prompt asks for: a fenced yaml block
Fenced(body) == "~~~yaml\n" \o body \o "~~~"

AltData == MkData(AltResume, BasePersonal, <<Sections.PROJECTS>>)

FencePrefixes == {"", "~~~\n", "~~~yml\n", "~~~yaml", "~~~yaml\n", "yaml:\n~~~yaml\n"}

FenceSuffixes == {"", "~~~", "~~~\n", "\n~~~", "~~~~", "done"}

ReplyBodies == {"", "a", "null\n", "key: [", yaml_dump(BaseData), yaml_dump(AltData)}

Replies ==
  {Fenced(yaml_dump(d)) : d \in YamlDocs}
  \cup {pre \o body \o post : pre \in FencePrefixes, body \in ReplyBodies, post \in FenceSuffixes}

ApiOutcomes == {"ok", "APIStatusError", "APIConnectionError"}

PromptText == "Tailor my resume to this job"

\* a run of the package command: which file read fails (if any), how the API
\* call ends, the reply, and what points.yaml holds from an earlier run
CliInputs ==
  {[variant |-> "cli", io_fault |-> "none", api_outcome |-> "ok", reply |-> r, points_yaml |-> Nothing] :
     r \in Replies}
  \cup {[variant |-> "cli", io_fault |-> f, api_outcome |-> a,
         reply |-> IF a = "ok" THEN Fenced(yaml_dump(BaseData)) ELSE "", points_yaml |-> y] :
          f \in {"none", "prompt", "points"}, a \in ApiOutcomes, y \in {Nothing, Some(yaml_dump(AltData))}}

\* a run of script.py: what points.yaml holds, and whether reading it fails
ScriptInputs ==
  {[variant |-> "script", io_fault |-> "none", api_outcome |-> "ok", reply |-> "", points_yaml |-> Some(yaml_dump(d))] :
     d \in YamlDocs}
  \cup {[variant |-> "script", io_fault |-> f, api_outcome |-> "ok", reply |-> "", points_yaml |-> y] :
          f \in {"none", "points"},
          y \in {Nothing, Some(yaml_dump(PyNone)), Some("key: ["), Some(yaml_dump(BaseData))}}

\* src/prompt_generator.py: the module is imported (it reads prompt.txt) and
\* a client calls generate_yaml_from_prompt
LegacyInputs ==
  {[variant |-> "legacy", io_fault |-> f, api_outcome |-> "ok", reply |-> r, points_yaml |-> Nothing] :
     f \in {"none", "prompt"}, r \in Replies}
  \cup {[variant |-> "legacy", io_fault |-> f, api_outcome |-> a, reply |-> "", points_yaml |-> Nothing] :
          f \in {"none", "prompt"}, a \in ApiOutcomes \ {"ok"}}

\* the package command with the margins assigned after the loop, as in script.py
CliProgram_margins_last ==
  << "read_prompt", "generate", "save_yaml", "read_yaml", "validate", "new_doc", "contact",
     "name", "links", "enter_loop", "sections", "margins", "save", "done" >>

CliProgram ==
  << "read_prompt", "generate", "save_yaml", "read_yaml", "validate", "new_doc", "contact",
     "margins", "name", "links", "enter_loop", "sections", "save", "done" >>

\* script.py with the document saved before the section loop
ScriptProgram_save_before_loop ==
  << "read_yaml", "validate", "new_doc", "name", "links", "save", "enter_loop", "sections",
     "margins", "done" >>

ScriptProgram ==
  << "read_yaml", "validate", "new_doc", "name", "links", "enter_loop", "sections", "margins",
     "save", "done" >>

LegacyProgram == << "read_prompt", "legacy_generate", "done" >>

\* margins of the default template of python-docx
DefaultMargins ==
  [left |-> Inches(1250), right |-> Inches(1250), top |-> Inches(1000), bottom |-> Inches(1000)]

ResumeMargins ==
  [left |-> Inches(500), right |-> Inches(500), top |-> Inches(437), bottom |-> Inches(287)]

(* ---------------------------------------------------------------------- *)
(* State                                                                   *)
(* ---------------------------------------------------------------------- *)
VARIABLES
  variant,           \* "cli": resume_builder/cli.py main; "script": script.py;
                     \* "legacy": src/prompt_generator.py
  io_fault,          \* the file whose read raises an I/O error: "none", "prompt", "points"
  api_outcome,       \* how client.messages.create ends
  reply,             \* message.content[0].text
  pc,                \* the statement to run next
  err,               \* the exception that ended the run, "" if none
  err_args,          \* the arguments that exception was built with
  printed,           \* what was printed
  config_data,       \* the prompt text read
  api_calls,         \* number of calls of client.messages.create
  sliced,            \* generate_yaml_from_prompt: the text handed to yaml.safe_load
  yaml_content,      \* main: the value generate_yaml_from_prompt returned
  points_yaml,       \* content of the file points.yaml
  data,              \* the structure loaded from points.yaml
  resume,            \* the validated Resume
  contact,           \* the validated ContactInfo
  initialdoc,        \* the document: [paragraphs, margins]
  margin_writes,     \* number of times the margins were assigned
  sections,          \* data['resume_sections'], the list the loop iterates
  idx,               \* number of directives the loop has consumed
  output_file,       \* the document written to the output file
  saves              \* number of times the output file was written

vars ==
  << variant, io_fault, api_outcome, reply, pc, err, err_args, printed, config_data, api_calls, sliced,
     yaml_content, points_yaml, data, resume, contact, initialdoc, margin_writes, sections, idx,
     output_file, saves >>

inputs == << variant, io_fault, api_outcome, reply >>

Program ==
  CASE variant = "cli"    -> CliProgram
    [] variant = "script" -> ScriptProgram
    [] variant = "legacy" -> LegacyProgram

\* the statement after stage in the program text
After(stage) ==
  LET k == CHOOSE j \in 1..Len(Program) : Program[j] = stage IN Program[k + 1]

Init ==
  /\ \E in \in CliInputs \cup ScriptInputs \cup LegacyInputs :
       /\ variant = in.variant
       /\ io_fault = in.io_fault
       /\ api_outcome = in.api_outcome
       /\ reply = in.reply
       /\ points_yaml = in.points_yaml
  /\ pc = Program[1]
  /\ err = ""
  /\ err_args = <<>>
  /\ printed = <<>>
  /\ config_data = Nothing
  /\ api_calls = 0
  /\ sliced = Nothing
  /\ yaml_content = Nothing
  /\ data = Nothing
  /\ resume = Nothing
  /\ contact = Nothing
  /\ initialdoc = Nothing
  /\ margin_writes = 0
  /\ sections = Nothing
  /\ idx = 0
  /\ output_file = Nothing
  /\ saves = 0

\* an uncaught exception ends the run
Raise(e) == pc' = "failed" /\ err' = e /\ err_args' = <<>>

\* raise e(arg): an exception built with one argument
RaiseWith(e, arg) == pc' = "failed" /\ err' = e /\ err_args' = <<arg>>

\* reading a variable that was never bound
Unbound == IF variant = "cli" THEN "UnboundLocalError" ELSE "NameError"

(* ---------------------------------------------------------------------- *)
(* Actions: the statements of main (cli.py) and of script.py               *)
(* ---------------------------------------------------------------------- *)
\* except clauses that end the run after the diagnostic
IoErrorHandler_aborts(diagnostic) == [printed |-> diagnostic, raised |-> "SystemExit"]

\* cli.py 94-99 and 109-114, script.py 18-23, src/prompt_generator.py 36-41:
\* the except clauses of a file read print a diagnostic and raise nothing
IoErrorHandler(diagnostic) == [printed |-> diagnostic, raised |-> ""]

\* cli.py 90-99, src/prompt_generator.py 32-41: read the prompt file; an I/O
\* error is caught and reported
ReadPrompt ==
  /\ pc = "read_prompt"
  /\ IF io_fault = "prompt"
     THEN LET handled == IoErrorHandler("An I/O error occurred")
          IN /\ printed' = Append(printed, handled.printed)
             /\ UNCHANGED config_data
             /\ IF handled.raised # "" THEN Raise(handled.raised)
                ELSE pc' = After("read_prompt") /\ UNCHANGED << err, err_args >>
     ELSE /\ config_data' = Some(PromptText)
          /\ printed' = Append(printed, "Successfully read prompt text file.")
          /\ pc' = After("read_prompt")
          /\ UNCHANGED << err, err_args >>
  /\ UNCHANGED << inputs, api_calls, sliced, yaml_content, points_yaml, data, resume, contact,
                  initialdoc, margin_writes, sections, idx, output_file, saves >>

\* an except clause that lets the API error through to the caller
ApiErrorHandler_reraise(outcome) ==
  [ printed |-> IF outcome = "APIStatusError" THEN "API Error" ELSE "Network error. Check your connection.",
    raised  |-> outcome ]

\* prompt_generator.py 99-102, src/prompt_generator.py 60-63: the except
\* clauses of the API call print a message and raise nothing
ApiErrorHandler(outcome) ==
  [ printed |-> IF outcome = "APIStatusError" THEN "API Error" ELSE "Network error. Check your connection.",
    raised  |-> "" ]

\* cli.py 101-102 with LLMResumeGenerator.generate_yaml_from_prompt
GenerateYaml ==
  /\ pc = "generate"
  /\ IF config_data = Nothing
     THEN /\ Raise(Unbound)
          /\ UNCHANGED << api_calls, sliced, yaml_content, printed >>
     ELSE /\ api_calls' = api_calls + 1
          /\ IF api_outcome = "ok"
             THEN LET text == PySlice(reply, 7, 4)
                      loaded == yaml_safe_load(text)
                  IN /\ sliced' = Some(text)
                     /\ printed' = Append(printed, "yaml.dump(yaml_content)")
                     /\ IF loaded.ok
                        THEN /\ yaml_content' = Some(loaded.value)
                             /\ pc' = After("generate")
                             /\ UNCHANGED << err, err_args >>
                        ELSE /\ RaiseWith("ValueError", "YAMLError")
                             /\ UNCHANGED yaml_content
             ELSE LET handled == ApiErrorHandler(api_outcome)
                  IN /\ printed' = Append(printed, handled.printed)
                     /\ UNCHANGED sliced
                     /\ IF handled.raised # ""
                        THEN Raise(handled.raised) /\ UNCHANGED yaml_content
                        ELSE /\ yaml_content' = Some(PyNone)
                             /\ pc' = After("generate")
                             /\ UNCHANGED << err, err_args >>
  /\ UNCHANGED << inputs, config_data, points_yaml, data, resume, contact, initialdoc, margin_writes,
                  sections, idx, output_file, saves >>

\* src/prompt_generator.py 52-71: generate_yaml_from_prompt called by a client
\* with a prompt text; the function goes on after a handled API error, and
\* a YAML error is printed and ValueError(print(e)) raised
LegacyGenerateYaml ==
  /\ pc = "legacy_generate"
  /\ \E prompt_text \in {PromptText} :
       /\ api_calls' = api_calls + 1
       /\ IF api_outcome = "ok"
          THEN LET text == PySlice(reply, 7, 4)
                   loaded == yaml_safe_load(text)
               IN /\ sliced' = Some(text)
                  /\ IF loaded.ok
                     THEN /\ yaml_content' = Some(loaded.value)
                          /\ pc' = After("legacy_generate")
                          /\ UNCHANGED << err, err_args, printed >>
                     ELSE /\ printed' = Append(printed, "YAMLError")
                          /\ RaiseWith("ValueError", "None")
                          /\ UNCHANGED yaml_content
          ELSE LET handled == ApiErrorHandler(api_outcome)
               IN /\ printed' = Append(printed, handled.printed)
                  /\ Raise(IF handled.raised # "" THEN handled.raised ELSE "UnboundLocalError")
                  /\ UNCHANGED << sliced, yaml_content >>
  /\ UNCHANGED << inputs, config_data, points_yaml, data, resume, contact, initialdoc, margin_writes,
                  sections, idx, output_file, saves >>

\* a save that leaves the file alone when there is nothing to write
save_yaml_to_file_keeps_on_none(file, yaml_text) ==
  IF yaml_text = PyNone THEN file ELSE Some(yaml_dump(yaml_text))

\* LLMResumeGenerator.save_yaml_to_file(file, yaml_text): the content of the
\* file after open(file, 'w') and yaml.dump; file is its content before
save_yaml_to_file(file, yaml_text) == Some(yaml_dump(yaml_text))

\* cli.py 103 with LLMResumeGenerator.save_yaml_to_file
SaveYaml ==
  /\ pc = "save_yaml"
  /\ points_yaml' = save_yaml_to_file(points_yaml, Get(yaml_content))
  /\ pc' = After("save_yaml")
  /\ UNCHANGED << inputs, err, err_args, printed, config_data, api_calls, sliced, yaml_content, data,
                  resume, contact, initialdoc, margin_writes, sections, idx, output_file, saves >>

\* cli.py 105-114, script.py 14-23: load points.yaml; a missing or unreadable
\* file is caught and reported, a YAML error is not caught
ReadYaml ==
  /\ pc = "read_yaml"
  /\ IF io_fault = "points" \/ points_yaml = Nothing
     THEN LET handled == IoErrorHandler(IF points_yaml = Nothing
                                        THEN "yaml file not found" ELSE "An I/O error occured")
          IN /\ printed' = Append(printed, handled.printed)
             /\ UNCHANGED data
             /\ IF handled.raised # "" THEN Raise(handled.raised)
                ELSE pc' = After("read_yaml") /\ UNCHANGED << err, err_args >>
     ELSE LET loaded == yaml_safe_load(Get(points_yaml))
          IN IF loaded.ok
             THEN /\ data' = Some(loaded.value)
                  /\ printed' = Append(printed, "Successfully read yaml file.")
                  /\ pc' = After("read_yaml")
                  /\ UNCHANGED << err, err_args >>
             ELSE /\ Raise("YAMLError")
                  /\ UNCHANGED << data, printed >>
  /\ UNCHANGED << inputs, config_data, api_calls, sliced, yaml_content, points_yaml, resume, contact,
                  initialdoc, margin_writes, sections, idx, output_file, saves >>

\* a validation that takes the value the generator returned
ValidateArgument_in_memory == yaml_content

\* cli.py 116, script.py 156: the structure that is validated is data, the one
\* loaded from points.yaml
ValidateArgument == data

\* cli.py 116, script.py 156: resume = Resume.model_validate(data['resume'][0])
Validate ==
  /\ pc = "validate"
  /\ LET arg == ValidateArgument
     IN IF arg = Nothing THEN Raise(Unbound) /\ UNCHANGED resume
        ELSE IF Get(arg) = PyNone THEN Raise("TypeError") /\ UNCHANGED resume
        ELSE IF "resume" \notin DOMAIN Get(arg) THEN Raise("KeyError") /\ UNCHANGED resume
        ELSE IF Get(arg).resume = <<>> THEN Raise("IndexError") /\ UNCHANGED resume
        ELSE LET model == Resume_model_validate(Get(arg).resume[1])
             IN IF model = Nothing
                THEN Raise("ValidationError") /\ UNCHANGED resume
                ELSE resume' = model /\ pc' = After("validate") /\ UNCHANGED << err, err_args >>
  /\ UNCHANGED << inputs, printed, config_data, api_calls, sliced, yaml_content, points_yaml, data,
                  contact, initialdoc, margin_writes, sections, idx, output_file, saves >>

\* cli.py 118, script.py 161: initialdoc = doc()
NewDoc ==
  /\ pc = "new_doc"
  /\ initialdoc' = Some([paragraphs |-> <<>>, margins |-> DefaultMargins])
  /\ pc' = After("new_doc")
  /\ UNCHANGED << inputs, err, err_args, printed, config_data, api_calls, sliced, yaml_content, points_yaml,
                  data, resume, contact, margin_writes, sections, idx, output_file, saves >>

\* cli.py 120-125: name and email come from personal_details, the two URLs
\* are the placeholder written in the code
MakeContact ==
  /\ pc = "contact"
  /\ LET d == Get(data)
     IN IF "personal_details" \notin DOMAIN d THEN Raise("KeyError") /\ UNCHANGED contact
        ELSE IF d.personal_details = <<>> THEN Raise("IndexError") /\ UNCHANGED contact
        ELSE IF ~({"name", "email"} \subseteq DOMAIN d.personal_details[1])
             THEN Raise("KeyError") /\ UNCHANGED contact
        ELSE LET model == ContactInfo(d.personal_details[1].name, d.personal_details[1].email,
                                      "https://google.com", "https://google.com")
             IN IF model = Nothing
                THEN Raise("ValidationError") /\ UNCHANGED contact
                ELSE contact' = model /\ pc' = After("contact") /\ UNCHANGED << err, err_args >>
  /\ UNCHANGED << inputs, printed, config_data, api_calls, sliced, yaml_content, points_yaml, data,
                  resume, initialdoc, margin_writes, sections, idx, output_file, saves >>

\* cli.py 127-131, script.py 185-189: the page margins of the only section
SetMargins ==
  /\ pc = "margins"
  /\ initialdoc' = Some([Get(initialdoc) EXCEPT !.margins = ResumeMargins])
  /\ margin_writes' = margin_writes + 1
  /\ pc' = After("margins")
  /\ UNCHANGED << inputs, err, err_args, printed, config_data, api_calls, sliced, yaml_content, points_yaml,
                  data, resume, contact, sections, idx, output_file, saves >>

\* the document after the statements that produced B; their exception, if any
Written(stage, B) ==
  /\ initialdoc' = Some([Get(initialdoc) EXCEPT !.paragraphs = B.paragraphs])
  /\ IF B.err # "" THEN Raise(B.err) ELSE pc' = After(stage) /\ UNCHANGED << err, err_args >>

\* cli.py 133-134: paragraph_formatting and space_after = 0;
\* script.py 171-174: the literal name, the Name preset, centred
NameLine ==
  /\ pc = "name"
  /\ LET B == Builder(Get(initialdoc).paragraphs)
     IN IF variant = "cli"
        THEN Written("name", set_space_after(
                       paragraph_formatting(B, Get(contact).name, formattingstyles.Name), 0))
        ELSE Written("name", set_space_after(set_alignment(
                       apply(add_paragraph(B, "AMISH GOEL", "Normal"), formattingstyles.Name),
                       "CENTER"), Pt(0)))
  /\ UNCHANGED << inputs, printed, config_data, api_calls, sliced, yaml_content, points_yaml, data,
                  resume, contact, margin_writes, sections, idx, output_file, saves >>

\* cli.py 136, script.py 176-178: the contact line
LinksLine ==
  /\ pc = "links"
  /\ LET B == Builder(Get(initialdoc).paragraphs)
     IN IF variant = "cli"
        THEN Written("links", paragraph_formatting(B, Get(contact).email \o " | LinkedIn | GitHub",
                                                   formattingstyles.Links))
        ELSE Written("links", set_alignment(
                       apply(add_paragraph(B, "Jobs@lets.workwithamish.me" \o " | LinkedIn | GitHub",
                                           "Normal"), formattingstyles.Links), "CENTER"))
  /\ UNCHANGED << inputs, printed, config_data, api_calls, sliced, yaml_content, points_yaml, data,
                  resume, contact, margin_writes, sections, idx, output_file, saves >>

\* cli.py 138, script.py 180: the loop evaluates data['resume_sections']
EnterLoop ==
  /\ pc = "enter_loop"
  /\ IF "resume_sections" \notin DOMAIN Get(data)
     THEN Raise("KeyError") /\ UNCHANGED sections
     ELSE sections' = Some(Get(data).resume_sections) /\ pc' = After("enter_loop") /\ UNCHANGED << err, err_args >>
  /\ UNCHANGED << inputs, printed, config_data, api_calls, sliced, yaml_content, points_yaml, data,
                  resume, contact, initialdoc, margin_writes, idx, output_file, saves >>

\* a loop that walks the directives from the last to the first
Directive_reversed(list, n) == list[Len(list) - n + 1]

\* the directive the loop takes in its n-th iteration
Directive(list, n) == list[n]

\* a loop body that skips a directive whose type has no renderer
LoopBody_skip_unknown(B, section) ==
  IF "type" \notin DOMAIN section THEN [B EXCEPT !.err = "KeyError"]
  ELSE IF section.type \notin DOMAIN renderermap THEN B
  ELSE render(renderermap[section.type],
              apply(add_paragraph(B, section.type, "Normal"), formattingstyles.SectionHeading),
              Get(resume))

\* the body of the loop for one directive: heading, SectionHeading preset,
\* renderer lookup, render
LoopBody(B, section) ==
  IF "type" \notin DOMAIN section THEN [B EXCEPT !.err = "KeyError"]
  ELSE LET heading == apply(add_paragraph(B, section.type, "Normal"), formattingstyles.SectionHeading)
       IN IF heading.err # "" THEN heading
          ELSE IF section.type \notin DOMAIN renderermap THEN [heading EXCEPT !.err = "KeyError"]
          ELSE IF variant = "cli"
               THEN render(renderermap[section.type], heading, Get(resume))
               ELSE script_render(renderermap[section.type], heading, Get(resume), Get(resume))

\* cli.py 138-141, script.py 180-183: one iteration of the loop
RenderSection ==
  /\ pc = "sections"
  /\ idx < Len(Get(sections))
  /\ LET B == LoopBody(Builder(Get(initialdoc).paragraphs), Directive(Get(sections), idx + 1))
     IN /\ initialdoc' = Some([Get(initialdoc) EXCEPT !.paragraphs = B.paragraphs])
        /\ IF B.err # "" THEN Raise(B.err) /\ UNCHANGED idx
           ELSE idx' = idx + 1 /\ UNCHANGED << pc, err, err_args >>
  /\ UNCHANGED << inputs, printed, config_data, api_calls, sliced, yaml_content, points_yaml, data,
                  resume, contact, margin_writes, sections, output_file, saves >>

\* the loop ends when the list is exhausted
LeaveLoop ==
  /\ pc = "sections"
  /\ idx = Len(Get(sections))
  /\ pc' = After("sections")
  /\ UNCHANGED << inputs, err, err_args, printed, config_data, api_calls, sliced, yaml_content, points_yaml,
                  data, resume, contact, initialdoc, margin_writes, sections, idx, output_file, saves >>

\* cli.py 143, script.py 191: initialdoc.save(...)
SaveDocument ==
  /\ pc = "save"
  /\ output_file' = initialdoc
  /\ saves' = saves + 1
  /\ pc' = After("save")
  /\ UNCHANGED << inputs, err, err_args, printed, config_data, api_calls, sliced, yaml_content, points_yaml,
                  data, resume, contact, initialdoc, margin_writes, sections, idx >>

Next ==
  \/ ReadPrompt
  \/ GenerateYaml
  \/ LegacyGenerateYaml
  \/ SaveYaml
  \/ ReadYaml
  \/ Validate
  \/ NewDoc
  \/ MakeContact
  \/ SetMargins
  \/ NameLine
  \/ LinksLine
  \/ EnterLoop
  \/ RenderSection
  \/ LeaveLoop
  \/ SaveDocument

Spec == Init /\ [][Next]_vars

(* ---------------------------------------------------------------------- *)
(* Properties                                                              *)
(* ---------------------------------------------------------------------- *)
Paragraphs == IF initialdoc = Nothing THEN <<>> ELSE Get(initialdoc).paragraphs

\* the paragraphs after the name line and the contact line
Body(paragraphs) == SubSeq(paragraphs, 3, Len(paragraphs))

IsSectionHeading(p) ==
  Len(p.runs) = 1 /\ p.runs[1].font = Some([bold |-> TRUE, font_name |-> "Times New Roman", font_size |-> Pt(13)])

\* the section headings of the document, in document order
HeadingTexts(paragraphs) ==
  LET hs == SelectSeq(paragraphs, IsSectionHeading) IN [i \in 1..Len(hs) |-> ParagraphText(hs[i])]

\* what each of the five sections appends after its heading
SectionContent(name, r) ==
  CASE name = "Professional Summary" -> ProfessionalSummaryRenderer(Builder(<<>>), r).paragraphs
    [] name = "Skills"               -> SkillRenderer(Builder(<<>>), r).paragraphs
    [] name = "Experience"           -> WorkExperienceRenderer(Builder(<<>>), r).paragraphs
    [] name = "Education"            -> EducationRenderer(Builder(<<>>), r).paragraphs
    [] name = "Projects"             -> ProjectRenderer(Builder(<<>>), r).paragraphs

RECURSIVE SectionsInOrder(_, _, _)
SectionsInOrder(list, k, r) ==
  IF k = 0 THEN <<>>
  ELSE SectionsInOrder(list, k - 1, r)
       \o <<apply(add_paragraph(Builder(<<>>), list[k].type, "Normal"),
                  formattingstyles.SectionHeading).paragraphs[1]>>
       \o SectionContent(list[k].type, r)

\* C1: the section headings and the section contents appear in the document
\* in the order of the directives of resume_sections: at every moment the
\* headings of the document are the types of the first directives, in order,
\* and while no error occurred the document after the two header lines is,
\* directive by directive, the heading followed by the content of that section.
C1_SectionOrder ==
  sections # Nothing =>
    /\ LET hs == HeadingTexts(Paragraphs)
       IN /\ Len(hs) <= Len(Get(sections))
          /\ \A i \in 1..Len(hs) : hs[i] = Get(sections)[i].type
    /\ err = "" =>
         Body(Paragraphs) = SectionsInOrder(Get(sections), idx, Get(resume))
    /\ output_file # Nothing =>
         /\ idx = Len(Get(sections))
         /\ HeadingTexts(Get(output_file).paragraphs) = [i \in 1..idx |-> Get(sections)[i].type]

\* C1 witness: a saved document of two sections whose order (Projects, then
\* Professional Summary) is the reverse of the field order of the model
C1_Witness ==
  /\ output_file # Nothing
  /\ HeadingTexts(Get(output_file).paragraphs) = <<"Projects", "Professional Summary">>
  /\ Get(resume) = BaseResume

\* position of the first directive whose type is not one of the five names,
\* 0 if there is none
FirstUnknown(list) ==
  LET bad == {i \in 1..Len(list) : "type" \in DOMAIN list[i] /\ list[i].type \notin
                {"Professional Summary", "Skills", "Experience", "Education", "Projects"}}
  IN IF bad = {} THEN 0 ELSE CHOOSE i \in bad : \A j \in bad : i <= j

\* C2: a directive whose type is not one of the five names is never skipped:
\* the loop does not get past it, no later directive is rendered, the run
\* does not leave the loop and saves nothing, and the iteration that meets it
\* ends the run with the lookup failure (KeyError).
C2_UnknownSectionFatal ==
  (sections # Nothing /\ FirstUnknown(Get(sections)) > 0) =>
    LET j == FirstUnknown(Get(sections))
    IN /\ idx < j
       /\ pc \in {"sections", "failed"}
       /\ output_file = Nothing
       /\ Len(HeadingTexts(Paragraphs)) <= j
       /\ (pc = "failed" /\ Len(HeadingTexts(Paragraphs)) = j) => err = "KeyError"
       /\ (pc = "failed" /\ idx = j - 1) => err \in {"KeyError", "IndexError"}

\* C2 witness: the run died on 'Hobbies' in first place, a known directive
\* after it was never rendered
C2_Witness ==
  /\ pc = "failed"
  /\ err = "KeyError"
  /\ sections = Some(Directives(<<"Hobbies", "Skills">>))
  /\ idx = 0
  /\ HeadingTexts(Paragraphs) = <<"Hobbies">>

\* every field of the Resume and of its entries is there
FullyPopulated(r) ==
  /\ DOMAIN r = {"summary", "skills", "education", "certificates", "work", "projects"}
  /\ \A i \in 1..Len(r.skills) : DOMAIN r.skills[i] = {"category", "skill"}
  /\ \A i \in 1..Len(r.work) : DOMAIN r.work[i] = {"Title", "Company", "Date", "Points"}
  /\ \A i \in 1..Len(r.projects) : DOMAIN r.projects[i] = {"Name", "Points"}
  /\ \A i \in 1..Len(r.certificates) : DOMAIN r.certificates[i] = {"Name", "Issuer"}
  /\ \A i \in 1..Len(r.education) :
       /\ DOMAIN r.education[i] = {"Name", "Credential"}
       /\ \A j \in 1..Len(r.education[i].Credential) :
            DOMAIN r.education[i].Credential[j] = {"Name", "Points"}

\* the structure handed to Resume.model_validate, when the run got that far
Validated ==
  /\ data # Nothing
  /\ Get(data) # PyNone
  /\ "resume" \in DOMAIN Get(data)
  /\ Get(data).resume # <<>>
  /\ pc \notin {"read_yaml", "validate"}

\* C3: validation yields a Resume only from a structure that has the six
\* fields and every sub-field of every entry, and that Resume is then fully
\* populated with the values of the structure; any other structure is
\* rejected as a whole with a validation error: no Resume, no document.
C3_ValidationAllOrNothing ==
  /\ resume # Nothing => Validated /\ FullyPopulated(Get(resume)) /\ Get(resume) = Get(data).resume[1]
  /\ (Validated /\ ~FullyPopulated(Get(data).resume[1])) =>
       /\ pc = "failed"
       /\ err = "ValidationError"
       /\ resume = Nothing
       /\ initialdoc = Nothing
       /\ output_file = Nothing

\* C3 witness: a structure whose second skills entry lacks 'skill' was rejected
C3_Witness ==
  /\ Validated
  /\ pc = "failed"
  /\ err = "ValidationError"
  /\ resume = Nothing
  /\ Get(data).resume[1] = [BaseResume EXCEPT !.skills = <<Skill1, [category |-> "Languages"]>>]

\* text of the runs of a paragraph, and whether it is a bullet
Skeleton(p) == [texts |-> [i \in 1..Len(p.runs) |-> p.runs[i].text], bullet |-> p.style = "List Bullet"]

Skeletons(paragraphs) == [i \in 1..Len(paragraphs) |-> Skeleton(paragraphs[i])]

Plain(t) == [texts |-> <<t>>, bullet |-> FALSE]

Bullet(t) == [texts |-> <<t>>, bullet |-> TRUE]

Blank == [texts |-> <<>>, bullet |-> FALSE]

RECURSIVE Flatten(_)
Flatten(lists) == IF lists = <<>> THEN <<>> ELSE Head(lists) \o Flatten(Tail(lists))

\* a is contained in b, in order
RECURSIVE ContainsInOrder(_, _)
ContainsInOrder(b, a) ==
  IF a = <<>> THEN TRUE
  ELSE IF b = <<>> THEN FALSE
  ELSE IF Head(a) = Head(b) THEN ContainsInOrder(Tail(b), Tail(a))
  ELSE ContainsInOrder(Tail(b), a)

SkillParagraphs(r) ==
  [i \in 1..Len(r.skills) |->
     [texts |-> <<r.skills[i].category \o ": ", r.skills[i].skill>>, bullet |-> FALSE]]

WorkParagraphs(r) ==
  Flatten([i \in 1..Len(r.work) |->
             <<Plain(r.work[i].Title \o ", " \o r.work[i].Company \o " " \o r.work[i].Date)>>
             \o [j \in 1..Len(r.work[i].Points) |-> Bullet(r.work[i].Points[j])]])

EndToEnd == sections = Some(Directives(<<"Professional Summary", "Skills", "Experience">>))

RECURSIVE PointsBefore(_, _)
PointsBefore(projects, j) ==
  IF j <= 1 THEN 0 ELSE PointsBefore(projects, j - 1) + Len(projects[j - 1].Points)

ExpectedMargins == [left |-> 457200, right |-> 457200, top |-> 399592, bottom |-> 262432]

\* C7 as stated: whenever the document holds a section heading or section
\* content, the margins have been set
C7_Original ==
  Len(Paragraphs) > 2 => (margin_writes = 1 /\ Get(initialdoc).margins = ExpectedMargins)

\* C7 (amended): the margins are assigned at most once in a run, to left and
\* right 0.5in, top 0.437in, bottom 0.287in, and always before the document
\* is saved; in the package command they are assigned before anything is
\* appended to the document, in script.py only after the last section was
\* rendered.
C7_LayoutOnce ==
  /\ margin_writes <= 1
  /\ margin_writes = 1 => Get(initialdoc).margins = ExpectedMargins
  /\ output_file # Nothing => (margin_writes = 1 /\ Get(output_file).margins = ExpectedMargins)
  /\ (variant = "cli" /\ Len(Paragraphs) > 0) => margin_writes = 1
  /\ (variant = "script" /\ margin_writes = 1) =>
       (pc \in {"save", "done"} /\ idx = Len(Get(sections)))
  /\ (variant = "script" /\ pc \in {"name", "links", "enter_loop", "sections", "margins", "failed"}) =>
       margin_writes = 0

\* C7 witness: the package command inside the loop, a section rendered, the
\* margins already in place
C7_Witness ==
  /\ variant = "cli"
  /\ pc = "sections"
  /\ idx >= 1
  /\ margin_writes = 1
  /\ Get(initialdoc).margins.top = 399592
  /\ Len(HeadingTexts(Paragraphs)) >= 1

\* C8: in the package command the first paragraph is the name, centred, in
\* the Name preset (18pt) with 0pt spacing after, and the second paragraph is
\* the centred contact line in the Links preset (14pt).
C8_NameAndContactLines ==
  (variant = "cli" /\ contact # Nothing) =>
    /\ Len(Paragraphs) >= 1 =>
         /\ ParagraphText(Paragraphs[1]) = Get(contact).name
         /\ Len(Paragraphs[1].runs) = 1 =>
              Paragraphs[1].runs[1].font
                = Some([bold |-> FALSE, font_name |-> "Times New Roman", font_size |-> 18 * 12700])
         /\ pc # "failed" => Paragraphs[1].alignment = Some("CENTER")
         /\ pc # "failed" => Paragraphs[1].space_after = Some(0)
    /\ Len(Paragraphs) >= 2 =>
         /\ ParagraphText(Paragraphs[2]) = Get(contact).email \o " | LinkedIn | GitHub"
         /\ Paragraphs[2].runs[1].font
              = Some([bold |-> FALSE, font_name |-> "Times New Roman", font_size |-> 14 * 12700])
         /\ Paragraphs[2].alignment = Some("CENTER")

\* the personal_details record, when the structure has one with name and email
Personal == Get(data).personal_details[1]

HasPersonal ==
  /\ data # Nothing
  /\ Get(data) # PyNone
  /\ "personal_details" \in DOMAIN Get(data)
  /\ Get(data).personal_details # <<>>
  /\ {"name", "email"} \subseteq DOMAIN Personal

\* the package command has executed the ContactInfo(...) call
ContactTried == variant = "cli" /\ initialdoc # Nothing /\ pc # "contact" /\ HasPersonal

\* C9 as stated: a malformed github or linkedin URL of personal_details is
\* rejected, and the validated values are those of personal_details
C9_Original ==
  ContactTried =>
    /\ ("github" \in DOMAIN Personal /\ Personal.github = "not a url") => contact = Nothing
    /\ contact # Nothing =>
         /\ Get(contact).name = Personal.name
         /\ Get(contact).email = Personal.email
         /\ "github" \in DOMAIN Personal => Get(contact).github = Personal.github
         /\ "linkedin" \in DOMAIN Personal => Get(contact).linkedin = Personal.linkedin

\* C9 (amended): ContactInfo validation rejects a malformed email and a
\* malformed github or linkedin URL and accepts well-formed ones; in the
\* package command the name and the email it validates are those of
\* personal_details, while github and linkedin are always the placeholder
\* 'https://google.com' written in the code, whatever personal_details holds.
C9_ContactValidation ==
  /\ ContactInfo("n", "a@b.com", "not a url", "https://example.com") = Nothing
  /\ ContactInfo("n", "a@b.com", "https://example.com", "not a url") = Nothing
  /\ ContactInfo("n", "not-an-email", "https://example.com", "https://example.com") = Nothing
  /\ ContactInfo("n", "a@b.com", "https://example.com", "https://example.com") # Nothing
  /\ ContactTried =>
       /\ Personal.email \in {"not-an-email", "a@b", "a b@c.com", ""} =>
            (contact = Nothing /\ pc = "failed" /\ err = "ValidationError")
       /\ Personal.email \in {"a@b.com", "Jobs@lets.workwithamish.me"} => contact # Nothing
  /\ contact # Nothing =>
       /\ HasPersonal
       /\ Get(contact).name = Personal.name
       /\ Get(contact).email = Personal.email
       /\ Get(contact).github = "https://google.com"
       /\ Get(contact).linkedin = "https://google.com"

\* C9 witness: the run was stopped by the email 'not-an-email'
C9_Witness ==
  /\ ContactTried
  /\ Personal.email = "not-an-email"
  /\ contact = Nothing
  /\ err = "ValidationError"

\* C10: the text handed to the YAML parser is the reply without its first 7
\* and its last 4 characters, whatever these characters are; for a reply
\* made of the 7-character fence opening, a body and 4 closing characters it
\* is exactly the body.
C10_FixedOffsetSlice ==
  sliced # Nothing =>
    LET t == Get(sliced)
        n == Len(reply)
    IN /\ Len(t) = IF n > 11 THEN n - 11 ELSE 0
       /\ \A i \in 1..Len(t) : Char(t, i) = Char(reply, i + 7)
       /\ (n >= 11 /\ SubSeq(reply, 1, 7) = "~~~yaml") =>
            reply = "~~~yaml" \o t \o SubSeq(reply, n - 3, n)

\* C10 witness: a fenced reply whose body reached the parser, and the call
\* returned the mapping
C10_Witness ==
  /\ sliced # Nothing
  /\ reply = "~~~yaml" \o Get(sliced) \o "\n~~~"
  /\ Len(Get(sliced)) > 0
  /\ yaml_content = Some(BaseData)

\* the text handed to the parser was not well-formed
ParseFailed == sliced # Nothing /\ ~yaml_safe_load(Get(sliced)).ok

\* C11: when the stripped reply is not well-formed, generate_yaml_from_prompt
\* returns no value and ends with a ValueError whose argument is the parse
\* failure (the YAMLError).
C11_ParseFailureRaised ==
  ParseFailed =>
    /\ yaml_content = Nothing
    /\ pc = "failed"
    /\ err = "ValueError"
    /\ err_args = <<"YAMLError">>

\* position of a stage in the text of the package command
StageIndex(stage) == CHOOSE j \in 1..Len(CliProgram) : CliProgram[j] = stage

\* the package command is past the given stage
Past(stage) == pc # "failed" /\ StageIndex(pc) > StageIndex(stage)

\* what each stage of the package command has read from the stages before it
CliDataFlow ==
  /\ api_calls <= 1
  /\ api_calls = 1 => config_data = Some(PromptText)
  /\ (Past("generate") \/ yaml_content # Nothing \/ sliced # Nothing) => api_calls = 1
  /\ Past("generate") => yaml_content # Nothing
  /\ Past("save_yaml") => points_yaml = Some(yaml_dump(Get(yaml_content)))
  /\ data # Nothing =>
       /\ yaml_content # Nothing
       /\ points_yaml = Some(yaml_dump(Get(yaml_content)))
       /\ points_yaml = Some(yaml_dump(Get(data)))
  /\ resume # Nothing => (data # Nothing /\ resume = Resume_model_validate(Get(data).resume[1]))
  /\ initialdoc # Nothing => resume # Nothing
  /\ sections # Nothing => (resume # Nothing /\ sections = Some(Get(data).resume_sections))
  /\ Past("sections") => (sections # Nothing /\ idx = Len(Get(sections)))
  /\ output_file # Nothing => (Past("save") /\ output_file = initialdoc)
  /\ saves = (IF output_file = Nothing THEN 0 ELSE 1)

\* C12: in the package command every step either ends the run with an error
\* or goes on to the next stage of the fixed order read prompt, generate,
\* write points.yaml, re-read points.yaml, validate, render, save (the loop
\* stage repeating once per directive); the model is called at most once and
\* exactly once in every run that gets past the generation; every stage has
\* only what the stages before it produced; and the validated Resume comes
\* from the structure re-read from points.yaml: when that read fails the run
\* ends at the validation although the reply is in memory.
C12_StageOrder ==
  /\ [](variant = "cli" => CliDataFlow)
  /\ [][ variant = "cli" =>
        /\ pc' # pc => (pc' = "failed" \/ pc' = CliProgram[StageIndex(pc) + 1])
        /\ pc' = "failed" => (output_file' = Nothing /\ saves' = 0)
        /\ (pc = "validate" /\ data = Nothing) => (pc' = "failed" /\ resume' = Nothing)
      ]_vars

\* C12 witness: a run of the package command that went through every stage:
\* one call, points.yaml holds the dump of the reply, the data is the one
\* loaded from it, and the document is saved
C12_Witness ==
  /\ variant = "cli"
  /\ pc = "done"
  /\ api_calls = 1
  /\ points_yaml = Some(yaml_dump(Get(yaml_content)))
  /\ points_yaml = Some(yaml_dump(Get(data)))
  /\ resume = Some(Get(data).resume[1])
  /\ idx = Len(Get(sections))
  /\ idx > 0
  /\ output_file = initialdoc
  /\ saves = 1

\* the heading paragraph the loop writes before it calls the renderer
HeadingParagraph(type) ==
  apply(add_paragraph(Builder(<<>>), type, "Normal"), formattingstyles.SectionHeading).paragraphs[1]

\* C13: an iteration of the section loop, with the render(doc, data) call in
\* it, leaves the Resume and the loaded data as they were and only appends
\* to the document: the paragraphs the document had before are still its
\* first paragraphs, unchanged and in the same order, and the heading written
\* just before the call is not touched by the renderer.
C13_RenderersOnlyAppend ==
  [][ ( /\ pc = "sections"
        /\ idx < Len(Get(sections)) )
      => LET old == Get(initialdoc).paragraphs
             new == Get(initialdoc').paragraphs
             section == Get(sections)[idx + 1]
         IN /\ resume' = resume
            /\ data' = data
            /\ sections' = sections
            /\ Get(initialdoc').margins = Get(initialdoc).margins
            /\ Len(new) >= Len(old)
            /\ SubSeq(new, 1, Len(old)) = old
            /\ Len(new) > Len(old) => new[Len(old) + 1] = HeadingParagraph(section.type)
            /\ idx' = idx + 1 => Len(new) > Len(old)
    ]_vars

\* C13 witness: two sections rendered; the name line, the contact line and
\* the heading of the first section are still in place before the content
\* of the second
C13_Witness ==
  /\ pc = "sections"
  /\ idx = 2
  /\ sections = Some(Directives(<<"Skills", "Experience">>))
  /\ ParagraphText(Paragraphs[1]) = "AMISH GOEL"
  /\ Paragraphs[3] = HeadingParagraph("Skills")
  /\ Paragraphs[6] = HeadingParagraph("Experience")
  /\ Len(Paragraphs) = 9
  /\ resume = Some(BaseResume)

\* what a call render(doc, d) of the renderer of a section appends to an
\* empty document, in the program of this run
RenderCall(name, d) ==
  IF variant = "script"
  THEN script_render(renderermap[name], Builder(<<>>), d, Get(resume)).paragraphs
  ELSE render(renderermap[name], Builder(<<>>), d).paragraphs

\* C14: once the module-level resume exists, a call render(doc, d) of any of
\* the five renderers with a model d appends the content of d, whatever the
\* module-level resume is.
C14_RenderersStateless ==
  resume # Nothing =>
    \A name \in SectionNames : \A d \in {BaseResume, AltResume} :
      RenderCall(name, d) = SectionContent(name, d)

Logged(text) == \E i \in 1..Len(printed) : printed[i] = text

PromptUnreadable == variant \in {"cli", "legacy"} /\ io_fault = "prompt"

\* the read of points.yaml failed in this run
PointsReadFailed == Logged("yaml file not found") \/ Logged("An I/O error occured")

C17_Original ==
  output_file # Nothing =>
    /\ resume # Nothing
    /\ contact # Nothing
    /\ sections # Nothing
    /\ idx = Len(Get(sections))

\* C17 (amended): the output document is saved at most once per run, as the
\* last step, and only when the Resume validation and the rendering of every
\* section directive have completed without error, and in the package
\* command also the ContactInfo validation (script.py builds no ContactInfo);
\* the saved document is the complete document; a run that ends with an
\* error has written no output document.
C17_SaveOnlyAfterSuccess ==
  /\ saves <= 1
  /\ saves = (IF output_file = Nothing THEN 0 ELSE 1)
  /\ output_file # Nothing =>
       /\ pc = "done"
       /\ err = ""
       /\ resume # Nothing
       /\ variant = "cli" => contact # Nothing
       /\ sections # Nothing
       /\ idx = Len(Get(sections))
       /\ FirstUnknown(Get(sections)) = 0
       /\ output_file = initialdoc
       /\ Body(Get(output_file).paragraphs) = SectionsInOrder(Get(sections), idx, Get(resume))
  /\ pc = "failed" => (output_file = Nothing /\ saves = 0)
  /\ pc = "done" /\ variant # "legacy" => saves = 1

\* C17 witness: the package command saved, once, a document of two rendered
\* sections, after both validations
C17_Witness ==
  /\ variant = "cli"
  /\ saves = 1
  /\ output_file = initialdoc
  /\ contact # Nothing
  /\ resume # Nothing
  /\ Len(Get(sections)) = 2
  /\ idx = 2
  /\ Len(HeadingTexts(Get(output_file).paragraphs)) = 2

\* the run ended inside the renderer of a known section
RendererRaised ==
  /\ pc = "failed"
  /\ sections # Nothing
  /\ idx < Len(Get(sections))
  /\ "type" \in DOMAIN Get(sections)[idx + 1]
  /\ Get(sections)[idx + 1].type \in SectionNames

\* C18: for a Resume that passed validation, empty lists and empty strings
\* included, no run ends inside the renderer of one of the five known
\* sections.
C18_RendererNeverRaises == ~RendererRaised

\* the package command whose API call has failed
ApiFailed == variant = "cli" /\ api_outcome # "ok" /\ api_calls = 1

====
